---- MODULE Spec2Model ----
(***************************************************************************)
(* Download orchestrator of hexday/updl (src/downloader.py) together with  *)
(* the engine registry (src/engines.py).                                    *)
(*                                                                         *)
(* A download record is a Python dict that is shared by reference between  *)
(* the downloads table, every worker thread of that id and the request     *)
(* handlers.  `rec` is the heap of those dicts (one per generated id),     *)
(* `downloads` is the set of keys of the table self.downloads: the value   *)
(* stored under a key is always the dict rec[id].                          *)
(*                                                                         *)
(* Handlers (start, pause, resume, cancel) are one action each.  A worker  *)
(* thread takes no lock while it mutates its dict, so it is split into the *)
(* steps between which other threads can run.  Worker threads have no      *)
(* identity in the code beyond the id they serve, so the live threads are  *)
(* a bag of thread states.  The dict self.active_threads is written by     *)
(* start, resume, cancel and the worker's finally block but is read by no  *)
(* decision of the orchestrator (only its length is reported by            *)
(* get_stats), so it is not part of the state.                             *)
(***************************************************************************)
EXTENDS Integers, Sequences, FiniteSets, Bags, TLC

\* ------------------------------------------------------------------ bounds
MaxDownloads == 2      \* ids generated by start_download
MaxThreads   == 2      \* worker threads spawned by start and resume in one run
MaxEngines   == 2      \* most engines available on the host at startup
MaxCapacity  == 1      \* largest configured config.SERVER.max_workers
MaxFiles     == 2      \* files handed to the upload queue
MaxUploads   == 2      \* queue_upload calls accepted in one run
MaxCallers   == 2      \* threads that call into the bot at the same time
MaxWorkers   == 2      \* upload worker threads alive at the same time

Ids == 1..MaxDownloads

\* ------------------------------------------------- configuration (config)
EngineNames == {"yt-dlp", "aria2", "requests", "wget", "curl"}

\* config.ENGINES[name].priority: lower is tried first.
EnginePriority(e) ==
    CASE e = "yt-dlp"   -> 1
      [] e = "aria2"    -> 2
      [] e = "requests" -> 3
      [] e = "wget"     -> 4
      [] e = "curl"     -> 5

\* URL classes: one that a platform pattern matches and one that none does.
Urls == {"platform_url", "direct_url"}

\* URLs submitted to start_download in the orchestrator's runs.
StartUrls == {"platform_url"}

\* config.detect_platform(url): a platform id, or None.
detect_platform(u) == IF u = "platform_url" THEN "youtube" ELSE "None"

\* config.get_engine_by_priority(): the engine names, ascending priority.
RECURSIVE SortByPriority(_)
SortByPriority(S) ==
    IF S = {} THEN << >>
    ELSE LET m == CHOOSE e \in S : \A f \in S : EnginePriority(e) <= EnginePriority(f)
         IN  <<m>> \o SortByPriority(S \ {m})

get_engine_by_priority == SortByPriority(EngineNames)

\* The hosts of the model: those on which the k first engines by priority
\* are enabled and installed, k = 0..MaxEngines.
Hosts == {{get_engine_by_priority[j] : j \in 1..k} : k \in 0..MaxEngines}

\* ------------------------------------------------------ engine registry
\* DownloadEngine.can_handle_url, overridden by YtDlpEngine only.
can_handle_url(e, u) ==
    IF e = "yt-dlp" THEN detect_platform(u) # "None" ELSE TRUE

\* EngineManager.get_all_compatible_engines(url) over the startup snapshot
\* `avail` of available engines.
RECURSIVE FilterCompatible(_, _, _)
FilterCompatible(order, avail, u) ==
    IF order = << >> THEN << >>
    ELSE LET e    == Head(order)
             rest == FilterCompatible(Tail(order), avail, u)
         IN  IF e \in avail /\ can_handle_url(e, u) THEN <<e>> \o rest ELSE rest

\* get_all_compatible_engines without the test of can_handle_url.
get_all_compatible_engines_AnyUrl(avail, u) ==
    SelectSeq(get_engine_by_priority, LAMBDA e : e \in avail)

get_all_compatible_engines(avail, u) ==
    FilterCompatible(get_engine_by_priority, avail, u)

\* ------------------------------------------------------------ file names
\* extract_filename(url): the last path component of the URL.
extract_filename(u) == IF u = "platform_url" THEN "watch.bin" ELSE "video.mp4"

\* A path under DOWNLOADS_DIR is <<name, k>>: k = 0 is the plain name and
\* k > 0 is stem_k.suffix.
RECURSIVE NextFree(_, _, _)
NextFree(files, name, k) ==
    IF <<name, k>> \in files THEN NextFree(files, name, k + 1) ELSE <<name, k>>

get_unique_filepath(files, name) == NextFree(files, name, 0)

NoPath == <<"", 0>>

VARIABLES
    available_engines, \* EngineManager.available_engines (names)
    max_workers,       \* config.SERVER.max_workers
    rec,               \* heap of download dicts, by id
    downloads,         \* keys of ProfessionalDownloader.downloads
    nextId,            \* number of ids generated so far + 1
    workers,           \* bag of live _download_worker threads: id served, position, loop index
    store,             \* record store: id -> saved copy of the dict
    stored,            \* ids present in the record store
    engine_stats,      \* record store: bag of engine performance rows
    fs,                \* files existing under DOWNLOADS_DIR
    ret,               \* value returned by the handler call made in the last step
    ctl                \* per id: the pause or cancel call that hit the record while it
                       \* was downloading and is still in force ("none" otherwise)

\* UltimateTelegramBot (src/telegram_bot.py)
VARIABLES
    bot,                  \* self.bot is not None
    upload_queue,         \* self.upload_queue: pending items, head first
    processing_files,     \* self.processing_files: paths in flight
    failed_files,         \* self.failed_files: quarantined paths
    consecutive_failures, \* local counter of _process_upload_queue
    uw,                   \* position of the upload worker coroutine
    nseq,                 \* items created so far (orders their created_at)
    published,            \* paths whose record carries a publish reference
    failed_run,           \* uploads that failed in a row since the last successful
                          \* publish or cooldown pause (observed, see ObserveRun)
    worker_running,       \* self.worker_running
    worker_threads,       \* number of live threads running _upload_worker
    starters              \* per calling thread: its position in start_worker

VARIABLES
    meter,                \* one download_data dict as progress_callback sees it
    lookup,               \* the engine registry and its last lookup
    raised,               \* ids in whose worker an exception has been raised
    iter,                 \* an iteration over self.downloads by a request thread
    inserting             \* per calling thread: the item queue_upload has built
                          \* and not yet put into the queue

dlVars == <<available_engines, max_workers, rec, downloads, nextId, workers,
            store, stored, engine_stats, ctl>>
wkVars == <<worker_running, worker_threads, starters>>
upVars == <<bot, upload_queue, processing_files, failed_files,
            consecutive_failures, uw, nseq, published, failed_run,
            worker_running, worker_threads, starters>>
vars == <<available_engines, max_workers, rec, downloads, nextId, workers,
          store, stored, engine_stats, fs, ret, ctl,
          bot, upload_queue, processing_files, failed_files,
          consecutive_failures, uw, nseq, published, failed_run,
          worker_running, worker_threads, starters, meter, lookup, raised, iter, inserting>>

\* download_data as start_download creates it: 'progress': 0, 'speed': 0,
\* 'eta': 0 and no 'size' key.  pending counts the worker threads of the
\* record that are about to enter an engine attempt (start_download has
\* started one), running those inside engine.download.
NoSize == 0 - 1
NoMeter == [status |-> "initializing", size |-> NoSize, progress |-> 0,
            speed |-> 0, eta |-> 0, pending |-> 1, running |-> 0]

\* No item: the calling thread is not between the checks and the insert of
\* queue_upload.
NoItem == [filepath |-> NoPath, priority |-> 0, created_at |-> 0]

\* No request thread is iterating over the table.
NoIter == [op |-> "none", todo |-> {}, len |-> 0]

\* The registry before EngineManager is built: nothing enabled, probed or
\* looked up.
NoLookup == [enabled |-> {}, startup |-> {}, present |-> {}, url |-> "",
             result |-> << >>]

\* A record no download owns.  telegram_file_id is the publish reference:
\* FALSE stands for the key being absent, as in every dict start_download
\* builds.
NoRec == [url |-> "", status |-> "none", engine |-> "unknown", filepath |-> NoPath,
          retry_count |-> 0, error_message |-> "", started_at |-> 0,
          finished_at |-> 0, progress |-> 0, telegram_file_id |-> FALSE]

\* `ret` is the value returned by the handler call of the last step.  A step
\* of a worker thread returns nothing to a caller; pause_download and
\* cancel_download return None.
NoRet == [op |-> "none", id |-> 0, ok |-> TRUE]

\* ------------------------------------------------- upload engines, files
Files == 1..MaxFiles

\* The path of the f-th file offered for upload.
UploadPath(f) == <<"upload.bin", f>>

\* Sizes in MB of the files offered for upload, around the limits of the
\* upload strategies; the f-th file has the f-th size (cyclically).
FileSizes == <<20, 51, 21, 5000>>

\* filepath.stat().st_size
st_size(filepath) == FileSizes[((filepath[2] - 1) % Len(FileSizes)) + 1]

\* self.upload_engines, in list order; max_size in MB, chunk_size in KB.
upload_engines ==
    << [name |-> "premium_ultra", max_size |-> 4096, chunk_size |-> 1024, timeout |-> 300],
       [name |-> "premium_large", max_size |-> 2048, chunk_size |-> 512,  timeout |-> 240],
       [name |-> "regular_large", max_size |-> 50,   chunk_size |-> 256,  timeout |-> 180],
       [name |-> "regular_small", max_size |-> 20,   chunk_size |-> 128,  timeout |-> 120] >>

\* for engine in self.upload_engines: if file_size <= engine['max_size']
RECURSIVE FirstFitting(_, _)
FirstFitting(engines, size) ==
    IF engines = << >> THEN upload_engines[1]
    ELSE IF size <= Head(engines).max_size THEN Head(engines)
    ELSE FirstFitting(Tail(engines), size)

_select_upload_engine(size) == FirstFitting(upload_engines, size)

\* The upload worker between two items.  hist: outcomes of the attempts made
\* on the current item; last: outcome that ended the previous item; calls:
\* publish calls sent to the endpoint in the latest attempt; slept: seconds
\* slept since the previous publish call.
NoUpload == [pc |-> "idle", filepath |-> NoPath, size |-> 0, attempt |-> 0,
             engine |-> "none", hist |-> << >>, last |-> "none", calls |-> 0, slept |-> 0]

Callers == 1..MaxCallers

\* The worker thread as init_bot leaves it: started by start_worker when
\* there is a bot, and no call of start_worker in progress.
WorkerStarted ==
    /\ worker_running = bot
    /\ worker_threads = (IF bot THEN 1 ELSE 0)
    /\ starters = [c \in Callers |-> "idle"]

\* UltimateTelegramBot.__init__ with a configured bot and nothing queued.
InitBot ==
    /\ upload_queue = << >>
    /\ processing_files = {}
    /\ failed_files = {}
    /\ consecutive_failures = 0
    /\ uw = NoUpload
    /\ nseq = 0
    /\ published = {}
    /\ failed_run = 0
    /\ WorkerStarted

Init ==
    /\ bot = TRUE
    /\ InitBot
    /\ available_engines \in Hosts
    /\ max_workers \in 1..MaxCapacity
    /\ rec = [i \in Ids |-> NoRec]
    /\ downloads = {}
    /\ nextId = 1
    /\ workers = EmptyBag
    /\ store = [i \in Ids |-> NoRec]
    /\ stored = {}
    /\ engine_stats = EmptyBag
    /\ fs = {}
    /\ ret = NoRet
    /\ ctl = [i \in Ids |-> "none"]
    /\ meter = NoMeter
    /\ lookup = NoLookup
    /\ raised = {}
    /\ iter = NoIter
    /\ inserting = [c \in Callers |-> NoItem]

\* sum(1 for d in self.downloads.values() if d.get('status') == 'downloading')
active_count == Cardinality({i \in downloads : rec[i].status = "downloading"})

\* Threads spawned so far: one per accepted start, one per accepted resume.
RECURSIVE SumRetry(_)
SumRetry(S) ==
    IF S = {} THEN 0
    ELSE LET i == CHOOSE j \in S : TRUE IN rec[i].retry_count + SumRetry(S \ {i})

Spawned == (nextId - 1) + SumRetry(Ids)

Live == BagToSet(workers)

\* The compatible-engine list a worker of this id iterates over.
EnginesOf(id) == get_all_compatible_engines(available_engines, rec[id].url)

\* threading.Thread(target=self._download_worker, args=(download_id,)).start()
SpawnWorker(id) == workers (+) SetToBag({[id |-> id, pc |-> "begin", idx |-> 0]})

\* Thread w moves to position pc with loop index idx / returns.
Move(w, pc, idx) ==
    (workers (-) SetToBag({w})) (+) SetToBag({[id |-> w.id, pc |-> pc, idx |-> idx]})
Exit(w) == workers (-) SetToBag({w})

\* db.save_download(download_data): upsert by id.
save_download(id, r) ==
    /\ store' = [store EXCEPT ![id] = r]
    /\ stored' = stored \cup {id}

\* db.delete_download(download_id)
delete_download(id) ==
    /\ store' = [store EXCEPT ![id] = NoRec]
    /\ stored' = stored \ {id}

\* db.save_engine_stats(engine.name, url, success, duration, size, error):
\* one row per call.  `did` is the download the row was written for.
save_engine_stats(engine, u, success, did) ==
    engine_stats' = engine_stats (+)
        SetToBag({[engine |-> engine, url |-> u, success |-> success, did |-> did]})

\* ---------------------------------------------------------------- handlers
\* start_download with the limit test off by one (> for >=).
start_download_OffByOne(u) ==
    IF active_count > max_workers
    THEN /\ ret' = [op |-> "start", id |-> 0, ok |-> FALSE]
         /\ UNCHANGED <<available_engines, max_workers, rec, downloads, nextId, workers,
                        store, stored, engine_stats, fs>>
    ELSE /\ nextId <= MaxDownloads
         /\ Spawned < MaxThreads
         /\ LET id == nextId
                r  == [NoRec EXCEPT !.url = u, !.status = "initializing"]
            IN  /\ rec' = [rec EXCEPT ![id] = r]
                /\ downloads' = downloads \cup {id}
                /\ save_download(id, r)
                /\ workers' = SpawnWorker(id)
                /\ nextId' = nextId + 1
                /\ ret' = [op |-> "start", id |-> id, ok |-> TRUE]
         /\ UNCHANGED <<available_engines, max_workers, engine_stats, fs>>

\* ProfessionalDownloader.start_download
start_download(u) ==
    IF active_count >= max_workers
    THEN /\ ret' = [op |-> "start", id |-> 0, ok |-> FALSE]
         /\ UNCHANGED <<available_engines, max_workers, rec, downloads, nextId, workers,
                        store, stored, engine_stats, fs>>
    ELSE /\ nextId <= MaxDownloads
         /\ Spawned < MaxThreads
         /\ LET id == nextId
                r  == [NoRec EXCEPT !.url = u, !.status = "initializing"]
            IN  /\ rec' = [rec EXCEPT ![id] = r]
                /\ downloads' = downloads \cup {id}
                /\ save_download(id, r)
                /\ workers' = SpawnWorker(id)
                /\ nextId' = nextId + 1
                /\ ret' = [op |-> "start", id |-> id, ok |-> TRUE]
         /\ UNCHANGED <<available_engines, max_workers, engine_stats, fs>>

\* ProfessionalDownloader.pause_download
pause_download(id) ==
    /\ IF id \in downloads
       THEN /\ rec' = [rec EXCEPT ![id].status = "paused"]
            /\ save_download(id, rec'[id])
       ELSE UNCHANGED <<rec, store, stored>>
    /\ ret' = NoRet
    /\ UNCHANGED <<available_engines, max_workers, downloads, nextId, workers, engine_stats, fs>>

\* resume_download without the test for the paused status.
resume_download_AnyStatus(id) ==
    IF \/ id \notin downloads
       \/ active_count >= max_workers
    THEN /\ ret' = [op |-> "resume", id |-> id, ok |-> FALSE]
         /\ UNCHANGED <<available_engines, max_workers, rec, downloads, nextId, workers,
                        store, stored, engine_stats, fs>>
    ELSE /\ Spawned < MaxThreads
         /\ rec' = [rec EXCEPT ![id].status = "downloading",
                               ![id].retry_count = @ + 1]
         /\ workers' = SpawnWorker(id)
         /\ ret' = [op |-> "resume", id |-> id, ok |-> TRUE]
         /\ UNCHANGED <<available_engines, max_workers, downloads, nextId,
                        store, stored, engine_stats, fs>>

\* resume_download that does not count the retry.
resume_download_NoCount(id) ==
    IF \/ id \notin downloads
       \/ rec[id].status # "paused"
       \/ active_count >= max_workers
    THEN /\ ret' = [op |-> "resume", id |-> id, ok |-> FALSE]
         /\ UNCHANGED <<available_engines, max_workers, rec, downloads, nextId, workers,
                        store, stored, engine_stats, fs>>
    ELSE /\ Spawned < MaxThreads
         /\ rec' = [rec EXCEPT ![id].status = "downloading"]
         /\ workers' = SpawnWorker(id)
         /\ ret' = [op |-> "resume", id |-> id, ok |-> TRUE]
         /\ UNCHANGED <<available_engines, max_workers, downloads, nextId,
                        store, stored, engine_stats, fs>>

\* ProfessionalDownloader.resume_download
resume_download(id) ==
    IF \/ id \notin downloads
       \/ rec[id].status # "paused"
       \/ active_count >= max_workers
    THEN /\ ret' = [op |-> "resume", id |-> id, ok |-> FALSE]
         /\ UNCHANGED <<available_engines, max_workers, rec, downloads, nextId, workers,
                        store, stored, engine_stats, fs>>
    ELSE /\ Spawned < MaxThreads
         /\ rec' = [rec EXCEPT ![id].status = "downloading",
                               ![id].retry_count = @ + 1]
         /\ workers' = SpawnWorker(id)
         /\ ret' = [op |-> "resume", id |-> id, ok |-> TRUE]
         /\ UNCHANGED <<available_engines, max_workers, downloads, nextId,
                        store, stored, engine_stats, fs>>

\* ProfessionalDownloader.cancel_download
cancel_download(id) ==
    /\ IF id \in downloads
       THEN /\ rec' = [rec EXCEPT ![id].status = "cancelled"]
            /\ fs' = IF rec[id].filepath # NoPath THEN fs \ {rec[id].filepath} ELSE fs
            /\ downloads' = downloads \ {id}
            /\ delete_download(id)
       ELSE UNCHANGED <<rec, fs, downloads, store, stored>>
    /\ ret' = NoRet
    /\ UNCHANGED <<available_engines, max_workers, nextId, workers, engine_stats>>

\* ------------------------------------------------- _download_worker steps
\* The worker without "if not engines: raise": it enters the loop over an
\* empty engine list.
WorkerBegin_NoRaise(w) ==
    /\ w.pc = "begin"
    /\ IF w.id \notin downloads
       THEN workers' = Exit(w)
       ELSE workers' = Move(w, "check", 1)
    /\ ret' = NoRet
    /\ UNCHANGED <<available_engines, max_workers, rec, downloads, nextId,
                   store, stored, engine_stats, fs>>

\* download_data = self.downloads.get(download_id); the engine lookup; and
\* the outer except for an empty engine list.
WorkerBegin(w) ==
    /\ w.pc = "begin"
    /\ IF w.id \notin downloads
       THEN /\ workers' = Exit(w)
            /\ UNCHANGED rec
       ELSE IF EnginesOf(w.id) = << >>
       THEN /\ rec' = [rec EXCEPT ![w.id].status = "error",
                                  ![w.id].error_message =
                                      "No compatible download engines available"]
            /\ workers' = Move(w, "finally", 0)
       ELSE /\ workers' = Move(w, "check", 1)
            /\ UNCHANGED rec
    /\ ret' = NoRet
    /\ UNCHANGED <<available_engines, max_workers, downloads, nextId,
                   store, stored, engine_stats, fs>>

\* for engine in engines: if download_data['status'] == 'cancelled': break
WorkerCheck(w) ==
    /\ w.pc = "check"
    /\ workers' = IF w.idx > Len(EnginesOf(w.id)) THEN Move(w, "after", w.idx)
                  ELSE IF rec[w.id].status = "cancelled" THEN Move(w, "after", w.idx)
                  ELSE Move(w, "set", w.idx)
    /\ ret' = NoRet
    /\ UNCHANGED <<available_engines, max_workers, rec, downloads, nextId,
                   store, stored, engine_stats, fs>>

\* "Update status" up to the call of engine.download
WorkerSet(w) ==
    /\ w.pc = "set"
    /\ LET id     == w.id
           engine == EnginesOf(id)[w.idx]
           path   == IF rec[id].filepath = NoPath
                     THEN get_unique_filepath(fs, extract_filename(rec[id].url))
                     ELSE rec[id].filepath
           saved  == [rec[id] EXCEPT !.status = "downloading", !.engine = engine,
                                     !.started_at = @ + 1]
       IN  /\ rec' = [rec EXCEPT ![id] = [saved EXCEPT !.filepath = path]]
           /\ downloads' = downloads \cup {id}
           /\ save_download(id, saved)
    /\ workers' = Move(w, "attempt", w.idx)
    /\ ret' = NoRet
    /\ UNCHANGED <<available_engines, max_workers, nextId,
                   engine_stats, fs>>

\* The adapter writes to destPath while engine.download is running.
EngineWrite(w) ==
    /\ w.pc = "attempt"
    /\ rec[w.id].filepath \notin fs
    /\ fs' = fs \cup {rec[w.id].filepath}
    /\ ret' = NoRet
    /\ UNCHANGED <<available_engines, max_workers, rec, downloads, nextId,
                   workers, store, stored, engine_stats>>

\* The success branch without its break: the loop goes on to the next engine.
EngineReturn_NoBreak(w, ok) ==
    /\ w.pc = "attempt"
    /\ LET id     == w.id
           engine == EnginesOf(id)[w.idx]
       IN  /\ save_engine_stats(engine, rec[id].url, ok, id)
           /\ IF ok
              THEN /\ rec' = [rec EXCEPT ![id].status = "completed",
                                         ![id].progress = 100,
                                         ![id].finished_at = @ + 1]
                   /\ fs' = fs \cup {rec[id].filepath}
                   /\ workers' = Move(w, "check", w.idx + 1)
              ELSE /\ fs' = fs \ {rec[id].filepath}
                   /\ workers' = Move(w, "check", w.idx + 1)
                   /\ UNCHANGED rec
    /\ ret' = NoRet
    /\ UNCHANGED <<available_engines, max_workers, downloads, nextId,
                   store, stored>>

\* result = engine.download(...) returned; "if result['success']" branches.
EngineReturn(w, ok) ==
    /\ w.pc = "attempt"
    /\ LET id     == w.id
           engine == EnginesOf(id)[w.idx]
       IN  /\ save_engine_stats(engine, rec[id].url, ok, id)
           /\ IF ok
              THEN /\ rec' = [rec EXCEPT ![id].status = "completed",
                                         ![id].progress = 100,
                                         ![id].finished_at = @ + 1]
                   /\ fs' = fs \cup {rec[id].filepath}
                   /\ workers' = Move(w, "after", w.idx)
              ELSE /\ fs' = fs \ {rec[id].filepath}
                   /\ workers' = Move(w, "check", w.idx + 1)
                   /\ UNCHANGED rec
    /\ ret' = NoRet
    /\ UNCHANGED <<available_engines, max_workers, downloads, nextId,
                   store, stored>>

\* last_error that keeps the error of the first engine that failed.
last_error_First(w) == IF w.idx > 1 THEN EnginesOf(w.id)[1] ELSE ""

\* last_error after the loop: the error of the last engine that failed (the
\* engines before position idx have all failed).
last_error(w) == IF w.idx > 1 THEN EnginesOf(w.id)[w.idx - 1] ELSE ""

\* The finally block: "Final save to database"; the thread ends.
Finally(w, r) ==
    /\ downloads' = downloads \cup {w.id}
    /\ save_download(w.id, r)
    /\ workers' = Exit(w)

\* The end of the loop without the test for a record still 'downloading'.
WorkerAfterLoop_KeepStatus(w) ==
    /\ w.pc = "after"
    /\ UNCHANGED rec
    /\ Finally(w, rec[w.id])
    /\ ret' = NoRet
    /\ UNCHANGED <<available_engines, max_workers, nextId, engine_stats, fs>>

\* End of the loop: "If we get here and status is still downloading, all
\* engines failed", then the finally block.
WorkerAfterLoop(w) ==
    /\ w.pc = "after"
    /\ LET id == w.id
           r  == IF rec[id].status = "downloading"
                 THEN [rec[id] EXCEPT !.status = "error",
                                      !.error_message =
                                          IF last_error(w) # "" THEN last_error(w)
                                          ELSE "All download engines failed"]
                 ELSE rec[id]
       IN  /\ rec' = [rec EXCEPT ![id] = r]
           /\ Finally(w, r)
    /\ ret' = NoRet
    /\ UNCHANGED <<available_engines, max_workers, nextId, engine_stats, fs>>

\* The finally block reached from the outer except.
WorkerFinally(w) ==
    /\ w.pc = "finally"
    /\ Finally(w, rec[w.id])
    /\ ret' = NoRet
    /\ UNCHANGED <<available_engines, max_workers, rec, nextId, engine_stats, fs>>

\* What a run shows about pause and cancel calls: ctl[id] is "pause"
\* ("cancel") from the step in which the status of a downloading record was
\* set to paused (cancelled), for as long as the status stays that.
Observe ==
    [i \in Ids |->
        IF rec'[i].status = "paused"
           /\ (rec[i].status = "downloading" \/ (rec[i].status = "paused" /\ ctl[i] = "pause"))
        THEN "pause"
        ELSE IF rec'[i].status = "cancelled"
           /\ (rec[i].status = "downloading" \/ (rec[i].status = "cancelled" /\ ctl[i] = "cancel"))
        THEN "cancel"
        ELSE "none"]

Handlers ==
    \/ \E u \in StartUrls : start_download(u)
    \/ \E id \in Ids : pause_download(id)
    \/ \E id \in Ids : resume_download(id)
    \/ \E id \in Ids : cancel_download(id)

WorkerSteps ==
    \/ \E w \in Live : WorkerBegin(w)
    \/ \E w \in Live : WorkerCheck(w)
    \/ \E w \in Live : WorkerSet(w)
    \/ \E w \in Live : EngineWrite(w)
    \/ \E w \in Live, ok \in BOOLEAN : EngineReturn(w, ok)
    \/ \E w \in Live : WorkerAfterLoop(w)
    \/ \E w \in Live : WorkerFinally(w)

Next == (Handlers \/ WorkerSteps) /\ ctl' = Observe /\ UNCHANGED <<upVars, meter, lookup, raised, iter, inserting>>

Spec == Init /\ [][Next]_vars

\* Runs in which no pause, resume or cancel call is made.
NextUndisturbed ==
    /\ (\E u \in StartUrls : start_download(u)) \/ WorkerSteps
    /\ ctl' = Observe
    /\ UNCHANGED <<upVars, meter, lookup, raised, iter, inserting>>

SpecUndisturbed == Init /\ [][NextUndisturbed]_vars

\* ============================================== upload queue and worker
\* queue_upload, clear_queue and retry_failed are called from request
\* handlers, one call after another; the worker coroutine is split at the
\* publish calls it awaits.
Priorities == {1, 2}

\* Outcomes of one publish call (bot.send_* inside _execute_upload).
Outcomes == {"ok", "rate_limited", "network_error", "timeout", "bad_request",
             "parse_error"}

\* Seconds a RetryAfter error asks the caller to wait.
RetryAfterSecs == 5

\* max_retries of _upload_file_with_engine
MaxRetries == 3

\* max_consecutive_failures of _process_upload_queue
MaxConsecutiveFailures == 10

QueuedPaths == {upload_queue[i].filepath : i \in 1..Len(upload_queue)}

\* Insertion before the first item of lower or equal priority.
InsertByPriority_BeforeEqual(q, item) ==
    LET lower == {i \in 1..Len(q) : item.priority >= q[i].priority}
    IN  IF lower = {} THEN Append(q, item)
        ELSE LET i == CHOOSE j \in lower : \A k \in lower : j <= k
             IN  SubSeq(q, 1, i - 1) \o <<item>> \o SubSeq(q, i, Len(q))

\* "Insert based on priority (higher priority first)": before the first
\* item of strictly lower priority, else at the end.
InsertByPriority(q, item) ==
    LET lower == {i \in 1..Len(q) : item.priority > q[i].priority}
    IN  IF lower = {} THEN Append(q, item)
        ELSE LET i == CHOOSE j \in lower : \A k \in lower : j <= k
             IN  SubSeq(q, 1, i - 1) \o <<item>> \o SubSeq(q, i, Len(q))

\* queue_upload without the look at failed_files.
queue_upload_NoFailedCheck(f, priority) ==
    LET filepath == UploadPath(f)
    IN  IF \/ ~bot
           \/ filepath \notin fs
           \/ filepath \in processing_files
           \/ filepath \in QueuedPaths
        THEN /\ ret' = [op |-> "queue_upload", id |-> f, ok |-> FALSE]
             /\ UNCHANGED <<upload_queue, nseq>>
        ELSE /\ nseq < MaxUploads
             /\ upload_queue' = InsertByPriority(upload_queue,
                    [filepath |-> filepath, priority |-> priority, created_at |-> nseq + 1])
             /\ nseq' = nseq + 1
             /\ ret' = [op |-> "queue_upload", id |-> f, ok |-> TRUE]

\* UltimateTelegramBot.queue_upload; ret.ok tells whether the item was queued
\* (the call itself returns None either way).
queue_upload(f, priority) ==
    LET filepath == UploadPath(f)
    IN  IF \/ ~bot
           \/ filepath \notin fs
           \/ filepath \in processing_files
           \/ filepath \in failed_files
           \/ filepath \in QueuedPaths
        THEN /\ ret' = [op |-> "queue_upload", id |-> f, ok |-> FALSE]
             /\ UNCHANGED <<upload_queue, nseq>>
        ELSE /\ nseq < MaxUploads
             /\ upload_queue' = InsertByPriority(upload_queue,
                    [filepath |-> filepath, priority |-> priority, created_at |-> nseq + 1])
             /\ nseq' = nseq + 1
             /\ ret' = [op |-> "queue_upload", id |-> f, ok |-> TRUE]

\* clear_queue that leaves the failed set alone.
clear_queue_KeepFailed ==
    /\ upload_queue' = << >>
    /\ failed_files' = failed_files
    /\ ret' = [op |-> "clear_queue", id |-> Len(upload_queue), ok |-> TRUE]

\* UltimateTelegramBot.clear_queue
clear_queue ==
    /\ upload_queue' = << >>
    /\ failed_files' = {}
    /\ ret' = [op |-> "clear_queue", id |-> Len(upload_queue), ok |-> TRUE]

\* UltimateTelegramBot.retry_failed
retry_failed ==
    /\ failed_files' = {}
    /\ ret' = [op |-> "retry_failed", id |-> Cardinality(failed_files), ok |-> TRUE]

\* A file is stored under the upload directory (the upload route).
save_file(f) ==
    /\ UploadPath(f) \notin fs
    /\ fs' = fs \cup {UploadPath(f)}

\* A stored file is removed from disk by another component.
remove_file(f) ==
    /\ UploadPath(f) \in fs
    /\ fs' = fs \ {UploadPath(f)}

\* _process_upload_queue with an empty queue.
UploadIdle ==
    /\ bot /\ uw.pc = "idle"
    /\ upload_queue = << >>
    /\ consecutive_failures' = 0
    /\ uw' = [uw EXCEPT !.slept = 3]

\* _process_upload_queue: "Get next item" up to the call of
\* _upload_file_with_engine.
UploadDequeue ==
    /\ bot /\ uw.pc = "idle"
    /\ upload_queue # << >>
    /\ LET filepath == Head(upload_queue).filepath
           size == st_size(filepath)
       IN  /\ upload_queue' = Tail(upload_queue)
           /\ IF filepath \in processing_files \/ filepath \in failed_files
              THEN UNCHANGED <<processing_files, failed_files, uw>>
              ELSE IF filepath \notin fs
              THEN /\ failed_files' = failed_files \cup {filepath}
                   /\ UNCHANGED <<processing_files, uw>>
              ELSE /\ processing_files' = processing_files \cup {filepath}
                   /\ uw' = [pc |-> "publish", filepath |-> filepath, size |-> size,
                             attempt |-> 1, engine |-> _select_upload_engine(size).name,
                             hist |-> << >>, last |-> "none", calls |-> 0, slept |-> 0]
                   /\ UNCHANGED failed_files

\* db.get_upload / db.save_upload (db.get_download / db.save_download for a
\* download) as called by _update_database: the record of the item carries
\* the publish reference from then on.
save_upload(filepath) == published' = published \cup {filepath}

\* Result handling that does not quarantine a failed item.
UploadDone_NoQuarantine(success, outcome, backoff, calls) ==
    LET cf == consecutive_failures + 1
    IN  IF success
        THEN /\ save_upload(uw.filepath)
             /\ uw' = [NoUpload EXCEPT !.pc = "unlink", !.filepath = uw.filepath,
                                       !.last = outcome, !.calls = calls]
             /\ UNCHANGED <<fs, failed_files, processing_files, consecutive_failures>>
        ELSE /\ UNCHANGED <<failed_files, published, fs>>
             /\ processing_files' = processing_files \ {uw.filepath}
             /\ consecutive_failures' = IF cf >= MaxConsecutiveFailures THEN 0 ELSE cf
             /\ uw' = [NoUpload EXCEPT
                            !.last = outcome,
                            !.calls = calls,
                            !.slept = backoff
                                + (IF cf >= MaxConsecutiveFailures THEN 60 ELSE 0)
                                + 10]

\* Result handling that unlinks the file together with the database update.
UploadDone_UnlinkFirst(success, outcome, backoff, calls) ==
    LET cf == consecutive_failures + 1
    IN  IF success
        THEN /\ save_upload(uw.filepath)
             /\ fs' = fs \ {uw.filepath}
             /\ uw' = [NoUpload EXCEPT !.pc = "unlink", !.filepath = uw.filepath,
                                       !.last = outcome, !.calls = calls]
             /\ UNCHANGED <<failed_files, processing_files, consecutive_failures>>
        ELSE /\ failed_files' = failed_files \cup {uw.filepath}
             /\ UNCHANGED <<published, fs>>
             /\ processing_files' = processing_files \ {uw.filepath}
             /\ consecutive_failures' = IF cf >= MaxConsecutiveFailures THEN 0 ELSE cf
             /\ uw' = [NoUpload EXCEPT
                            !.last = outcome,
                            !.calls = calls,
                            !.slept = backoff
                                + (IF cf >= MaxConsecutiveFailures THEN 60 ELSE 0)
                                + 10]

\* _upload_file_with_engine has returned: result handling of
\* _process_upload_queue.  A result is first written to the database
\* (_update_database); the file is unlinked in the next step.  Without a
\* result the path is quarantined, the failure counted, the path taken out
\* of the in-flight set, and the worker sleeps (60 s more after
\* max_consecutive_failures failures).
UploadDone(success, outcome, backoff, calls) ==
    LET cf == consecutive_failures + 1
    IN  IF success
        THEN /\ save_upload(uw.filepath)
             /\ uw' = [NoUpload EXCEPT !.pc = "unlink", !.filepath = uw.filepath,
                                       !.last = outcome, !.calls = calls]
             /\ UNCHANGED <<fs, failed_files, processing_files, consecutive_failures>>
        ELSE /\ failed_files' = failed_files \cup {uw.filepath}
             /\ UNCHANGED <<published, fs>>
             /\ processing_files' = processing_files \ {uw.filepath}
             /\ consecutive_failures' = IF cf >= MaxConsecutiveFailures THEN 0 ELSE cf
             /\ uw' = [NoUpload EXCEPT
                            !.last = outcome,
                            !.calls = calls,
                            !.slept = backoff
                                + (IF cf >= MaxConsecutiveFailures THEN 60 ELSE 0)
                                + 10]

\* The end of a successful item without processing_files.discard.
UploadUnlink_KeepProcessing ==
    /\ bot /\ uw.pc = "unlink"
    /\ fs' = fs \ {uw.filepath}
    /\ consecutive_failures' = 0
    /\ uw' = [NoUpload EXCEPT !.last = uw.last, !.calls = uw.calls, !.slept = 2]
    /\ UNCHANGED <<failed_files, published, processing_files>>

\* After the database update: filepath.unlink(), consecutive_failures = 0,
\* the finally block, sleep(2).
UploadUnlink ==
    /\ bot /\ uw.pc = "unlink"
    /\ fs' = fs \ {uw.filepath}
    /\ consecutive_failures' = 0
    /\ processing_files' = processing_files \ {uw.filepath}
    /\ uw' = [NoUpload EXCEPT !.last = uw.last, !.calls = uw.calls, !.slept = 2]
    /\ UNCHANGED <<failed_files, published>>

\* The worker goes on to the next attempt on the same item.
UploadRetry(outcome, backoff) ==
    /\ uw' = [uw EXCEPT !.attempt = @ + 1, !.hist = Append(@, outcome),
                        !.calls = 1, !.slept = backoff]
    /\ UNCHANGED <<processing_files, failed_files, consecutive_failures, published, fs>>

\* Results of the publish calls that follow a "can't parse entities"
\* BadRequest: plain, the call with the html-escaped caption made by
\* _execute_upload; simple, the call _upload_file_with_engine then makes
\* through _execute_upload with the two-line caption; plain2, the
\* html-escaped call _execute_upload makes when that one is rejected as
\* unparsable too.
CallResults == {"ok", "parse_error", "error"}

\* The calls sent after the first one was rejected as unparsable, and
\* whether one of them returned a result.
ParseFallback(plain, simple, plain2) ==
    IF plain = "ok" THEN [calls |-> 2, ok |-> TRUE]
    ELSE IF simple = "ok" THEN [calls |-> 3, ok |-> TRUE]
    ELSE IF simple = "error" THEN [calls |-> 3, ok |-> FALSE]
    ELSE [calls |-> 4, ok |-> plain2 = "ok"]

\* One attempt of _upload_file_with_engine: _execute_upload returned or
\* raised, and what the except clauses and the caller do with it.
UploadAttempt(outcome) ==
    /\ bot /\ uw.pc = "publish"
    /\ IF uw.filepath \notin fs
       THEN UploadDone(FALSE, "file_missing", 0, 0)
       ELSE CASE outcome = "ok" -> UploadDone(TRUE, outcome, 0, 1)
              [] outcome = "bad_request" -> UploadDone(FALSE, outcome, 0, 1)
              [] outcome = "parse_error" ->
                     \E plain, simple, plain2 \in CallResults :
                         LET r == ParseFallback(plain, simple, plain2)
                         IN  UploadDone(r.ok, IF r.ok THEN "ok" ELSE outcome, 0, r.calls)
              [] outcome = "timeout" ->
                     IF uw.attempt < MaxRetries
                     THEN UploadRetry(outcome, 10 * uw.attempt)
                     ELSE UploadDone(FALSE, outcome, 10 * uw.attempt, 1)
              [] outcome \in {"rate_limited", "network_error"} ->
                     IF uw.attempt < MaxRetries
                     THEN UploadRetry(outcome, 0)
                     ELSE UploadDone(FALSE, outcome, 0, 1)

\* Calls made on the bot by the request handlers.
UploadCalls ==
    \/ /\ \E f \in Files, priority \in Priorities : queue_upload(f, priority)
       /\ UNCHANGED <<processing_files, failed_files, consecutive_failures, uw, published, fs>>
    \/ /\ clear_queue
       /\ UNCHANGED <<processing_files, consecutive_failures, uw, nseq, published, fs>>
    \/ /\ retry_failed
       /\ UNCHANGED <<upload_queue, processing_files, consecutive_failures, uw, nseq, published, fs>>

FileSteps ==
    \/ /\ \E f \in Files : save_file(f)
       /\ ret' = NoRet
       /\ UNCHANGED <<upload_queue, processing_files, failed_files, consecutive_failures,
                      uw, nseq, published>>
    \/ /\ \E f \in Files : remove_file(f)
       /\ ret' = NoRet
       /\ UNCHANGED <<upload_queue, processing_files, failed_files, consecutive_failures,
                      uw, nseq, published>>

UploadWorkerSteps ==
    \/ /\ UploadIdle
       /\ ret' = NoRet
       /\ UNCHANGED <<upload_queue, processing_files, failed_files, nseq, published, fs>>
    \/ /\ UploadDequeue
       /\ ret' = NoRet
       /\ UNCHANGED <<consecutive_failures, nseq, published, fs>>
    \/ /\ \E outcome \in Outcomes : UploadAttempt(outcome)
       /\ ret' = NoRet
       /\ UNCHANGED <<upload_queue, nseq>>
    \/ /\ UploadUnlink
       /\ ret' = NoRet
       /\ UNCHANGED <<upload_queue, nseq>>

\* The bot with the download orchestrator idle.
InitUpload ==
    /\ bot \in BOOLEAN
    /\ InitBot
    /\ available_engines = {}
    /\ max_workers = 1
    /\ rec = [i \in Ids |-> NoRec]
    /\ downloads = {}
    /\ nextId = 1
    /\ workers = EmptyBag
    /\ store = [i \in Ids |-> NoRec]
    /\ stored = {}
    /\ engine_stats = EmptyBag
    /\ fs = {}
    /\ ret = NoRet
    /\ ctl = [i \in Ids |-> "none"]
    /\ meter = NoMeter
    /\ lookup = NoLookup
    /\ raised = {}
    /\ iter = NoIter
    /\ inserting = [c \in Callers |-> NoItem]

NextUpload ==
    /\ UploadCalls \/ FileSteps \/ UploadWorkerSteps
    /\ UNCHANGED bot
    /\ UNCHANGED failed_run
    /\ UNCHANGED wkVars
    /\ UNCHANGED <<dlVars, meter, lookup, raised, iter, inserting>>

SpecUpload == InitUpload /\ [][NextUpload]_vars

\* ------------------------------------------- the worker after many failures
\* Uploads failed in a row after the step: an item ended without a result
\* adds one (the count starts again when the worker makes its 60 s pause),
\* a confirmed publish sets it to 0.
ObserveRun ==
    IF uw.pc = "publish" /\ uw'.pc = "idle"
    THEN IF uw'.slept >= 60 THEN 0
         ELSE IF failed_run < MaxConsecutiveFailures THEN failed_run + 1
         ELSE failed_run
    ELSE IF uw.pc = "publish" /\ uw'.pc = "unlink" THEN 0
    ELSE failed_run

\* The bot after some uploads have failed in a row without the queue having
\* been seen empty: the counter of the worker holds their number.
InitCooldown ==
    /\ bot = TRUE
    /\ upload_queue = << >>
    /\ processing_files = {}
    /\ failed_files = {}
    /\ consecutive_failures \in 0..(MaxConsecutiveFailures - 1)
    /\ failed_run = consecutive_failures
    /\ WorkerStarted
    /\ uw = NoUpload
    /\ nseq = 0
    /\ published = {}
    /\ available_engines = {}
    /\ max_workers = 1
    /\ rec = [i \in Ids |-> NoRec]
    /\ downloads = {}
    /\ nextId = 1
    /\ workers = EmptyBag
    /\ store = [i \in Ids |-> NoRec]
    /\ stored = {}
    /\ engine_stats = EmptyBag
    /\ fs = {}
    /\ ret = NoRet
    /\ ctl = [i \in Ids |-> "none"]
    /\ meter = NoMeter
    /\ lookup = NoLookup
    /\ raised = {}
    /\ iter = NoIter
    /\ inserting = [c \in Callers |-> NoItem]

NextCooldown ==
    /\ UploadCalls \/ FileSteps \/ UploadWorkerSteps
    /\ failed_run' = ObserveRun
    /\ UNCHANGED bot
    /\ UNCHANGED wkVars
    /\ UNCHANGED <<dlVars, meter, lookup, raised, iter, inserting>>

SpecCooldown == InitCooldown /\ [][NextCooldown]_vars

\* ------------------------------------------ starting and stopping the worker
\* queue_upload by thread c; after the insertion, "if not
\* self.worker_running: self.start_worker()".
queue_upload_by(c, f, priority) ==
    /\ starters[c] = "idle"
    /\ queue_upload(f, priority)
    /\ starters' = [starters EXCEPT
                       ![c] = IF ret'.ok /\ ~worker_running THEN "start" ELSE "idle"]
    /\ UNCHANGED <<worker_running, worker_threads>>

\* start_worker: "if not self.worker_running and self.bot"
StartCheck(c) ==
    /\ starters[c] = "start"
    /\ starters' = [starters EXCEPT
                       ![c] = IF ~worker_running /\ bot THEN "set" ELSE "idle"]
    /\ ret' = NoRet
    /\ UNCHANGED <<upload_queue, nseq, worker_running, worker_threads>>

\* start_worker: self.worker_running = True and the thread is started.
StartSet(c) ==
    /\ starters[c] = "set"
    /\ worker_threads < MaxWorkers
    /\ worker_running' = TRUE
    /\ worker_threads' = worker_threads + 1
    /\ starters' = [starters EXCEPT ![c] = "idle"]
    /\ ret' = NoRet
    /\ UNCHANGED <<upload_queue, nseq>>

\* stop(): the flag is cleared and the thread joined for at most 30 s.  A
\* worker between two items sees the flag and ends within the join; a worker
\* inside an upload (attempts of 120 to 300 s) is still alive when the join
\* times out.
stop ==
    /\ worker_running' = FALSE
    /\ worker_threads' = IF uw.pc = "idle" /\ worker_threads >= 1
                         THEN worker_threads - 1
                         ELSE worker_threads
    /\ ret' = [op |-> "stop", id |-> worker_threads', ok |-> TRUE]
    /\ UNCHANGED <<upload_queue, nseq, starters>>

\* A worker thread at the top of "while self.worker_running" finds the flag
\* cleared and ends.  uw is the position of the thread that has been
\* running longest; further threads are only counted.
WorkerExit ==
    /\ worker_threads >= 1
    /\ ~worker_running
    /\ uw.pc = "idle"
    /\ worker_threads' = worker_threads - 1
    /\ ret' = NoRet
    /\ UNCHANGED <<upload_queue, nseq, worker_running, starters>>

\* The bot after __init__ and init_bot: the worker thread is running.
InitWorker ==
    /\ bot = TRUE
    /\ upload_queue = << >>
    /\ processing_files = {}
    /\ failed_files = {}
    /\ consecutive_failures = 0
    /\ failed_run = 0
    /\ WorkerStarted
    /\ uw = NoUpload
    /\ nseq = 0
    /\ published = {}
    /\ available_engines = {}
    /\ max_workers = 1
    /\ rec = [i \in Ids |-> NoRec]
    /\ downloads = {}
    /\ nextId = 1
    /\ workers = EmptyBag
    /\ store = [i \in Ids |-> NoRec]
    /\ stored = {}
    /\ engine_stats = EmptyBag
    /\ fs = {}
    /\ ret = NoRet
    /\ ctl = [i \in Ids |-> "none"]
    /\ meter = NoMeter
    /\ lookup = NoLookup
    /\ raised = {}
    /\ iter = NoIter
    /\ inserting = [c \in Callers |-> NoItem]

NextWorker ==
    /\ \/ /\ \E c \in Callers : StartCheck(c) \/ StartSet(c)
          /\ UNCHANGED <<processing_files, failed_files, consecutive_failures, uw,
                         published, fs>>
       \/ /\ \E c \in Callers, f \in Files, priority \in Priorities :
                 queue_upload_by(c, f, priority)
          /\ UNCHANGED <<processing_files, failed_files, consecutive_failures, uw,
                         published, fs>>
       \/ /\ stop \/ WorkerExit
          /\ UNCHANGED <<processing_files, failed_files, consecutive_failures, uw,
                         published, fs>>
       \/ /\ FileSteps
          /\ UNCHANGED wkVars
       \/ /\ worker_threads >= 1
          /\ UploadWorkerSteps
          /\ UNCHANGED wkVars
    /\ UNCHANGED <<bot, failed_run>>
    /\ UNCHANGED <<dlVars, meter, lookup, raised, iter, inserting>>

SpecWorker == InitWorker /\ [][NextWorker]_vars

\* ================================================================ claims
RECURSIVE SumCopies(_)
SumCopies(S) ==
    IF S = {} THEN 0
    ELSE LET w == CHOOSE x \in S : TRUE IN CopiesIn(w, workers) + SumCopies(S \ {w})

\* Number of live worker threads of id at position pc.
ThreadsAt(id, pc) == SumCopies({w \in Live : w.id = id /\ w.pc = pc})

\* Rows of the engine performance stats written for download id by engine e.
StatRows(id, e, ok) ==
    CopiesIn([engine |-> e, url |-> rec[id].url, success |-> ok, did |-> id], engine_stats)

Tried(id, e) == StatRows(id, e, TRUE) + StatRows(id, e, FALSE)

Created(id)  == id < nextId
Finished(id) == Created(id) /\ \A w \in Live : w.id # id

C2_ConcurrencyLimit == active_count <= max_workers

\* C3: a start_download call made at capacity returns an error and changes
\* nothing (no record, no store write, no worker); a call is refused only at
\* capacity; the table never holds more records than starts were accepted.
C3_StartRejected ==
    [][ /\ (ret'.op = "start" /\ active_count >= max_workers) => ~ret'.ok
        /\ (ret'.op = "start" /\ ~ret'.ok) =>
               /\ active_count >= max_workers
               /\ UNCHANGED <<rec, downloads, nextId, workers, store, stored,
                              engine_stats, fs>>
        /\ Cardinality(downloads') <= nextId' - 1 ]_vars

\* C3 witness: capacity 1, one record downloading, a second start refused,
\* record count still 1.
C3_Witness ==
    /\ ret.op = "start" /\ ~ret.ok
    /\ max_workers = 1
    /\ active_count = 1
    /\ Cardinality(downloads) = 1

\* C4: at most one adapter call is in progress for a download id.
C4_SingleAttempt == \A id \in Ids : ThreadsAt(id, "attempt") <= 1

\* The id is in neither the table nor the record store and no file is at
\* the record's filepath.
Gone(id) ==
    /\ id \notin downloads
    /\ id \notin stored
    /\ rec[id].filepath \notin fs

\* C5: once cancel_download has returned for a record that was downloading,
\* the record is gone and stays gone in every later state.
C5_CancelCleansUp ==
    [][ \A id \in Ids :
            (ctl[id] = "cancel" \/ ctl'[id] = "cancel") => Gone(id)' ]_vars

\* C6: after cancel_download the status is never set back from cancelled to
\* downloading or completed and no further adapter call is started.
C6_NoAttemptAfterCancel ==
    [][ \A id \in Ids :
            rec[id].status = "cancelled" =>
                /\ rec'[id].status \notin {"downloading", "completed"}
                /\ ThreadsAt(id, "attempt")' <= ThreadsAt(id, "attempt") ]_vars

\* C7: after pause_download on a downloading record the status stays paused
\* and no adapter call is started, until resume_download or cancel_download.
C7_PauseTakesEffect ==
    [][ \A id \in Ids :
            ctl[id] = "pause" =>
                \/ /\ rec'[id].status = "paused"
                   /\ ThreadsAt(id, "attempt")' <= ThreadsAt(id, "attempt")
                \/ rec'[id].status = "cancelled"
                \/ ret' = [op |-> "resume", id |-> id, ok |-> TRUE] ]_vars

\* C8: a record's status becomes paused only from downloading.
C8_PauseOnlyDownloading ==
    [][ \A id \in Ids :
            (rec'[id].status = "paused" /\ rec[id].status # "paused") =>
                rec[id].status = "downloading" ]_vars

\* resume_download(id) is to be refused.
ResumeRefused(id) ==
    \/ id \notin downloads
    \/ rec[id].status # "paused"
    \/ active_count >= max_workers

\* C9: resume_download returns False exactly when the id is unknown, the
\* record is not paused or the capacity is used up, and then changes nothing.
C9_ResumeRejected ==
    [][ /\ (ret'.op = "resume" /\ ResumeRefused(ret'.id)) => ~ret'.ok
        /\ (ret'.op = "resume" /\ ~ret'.ok) =>
               /\ ResumeRefused(ret'.id)
               /\ UNCHANGED <<rec, downloads, nextId, workers, store, stored,
                              engine_stats, fs>> ]_vars

\* C9 witness: resume refused for a paused record because the capacity is
\* used up; the record is still paused.
C9_Witness ==
    /\ ret.op = "resume" /\ ~ret.ok
    /\ ret.id \in downloads
    /\ rec[ret.id].status = "paused"
    /\ active_count >= max_workers

BeginWorker(id) == [id |-> id, pc |-> "begin", idx |-> 0]

\* C10: an accepted resume_download adds 1 to retry_count, sets the status
\* to downloading and starts a worker that begins at the first compatible
\* engine; retry_count changes in no other step.
C10_ResumeRestarts ==
    [][ \A id \in Ids :
            /\ ret' = [op |-> "resume", id |-> id, ok |-> TRUE] =>
                   /\ rec'[id].retry_count = rec[id].retry_count + 1
                   /\ rec'[id].status = "downloading"
                   /\ CopiesIn(BeginWorker(id), workers')
                          = CopiesIn(BeginWorker(id), workers) + 1
            /\ rec'[id].retry_count # rec[id].retry_count =>
                   ret' = [op |-> "resume", id |-> id, ok |-> TRUE]
            /\ \A w \in Live :
                   (w.id = id /\ w.pc = "begin"
                      /\ CopiesIn(w, workers') < CopiesIn(w, workers)) =>
                       \/ id \notin downloads
                       \/ EnginesOf(id) = << >>
                       \/ CopiesIn([id |-> id, pc |-> "check", idx |-> 1], workers')
                              = CopiesIn([id |-> id, pc |-> "check", idx |-> 1], workers) + 1
      ]_vars

\* C10 witness: a resume was accepted while the interrupted worker is in the
\* adapter call of the second engine; the new worker is at its beginning.
C10_Witness ==
    \E id \in Ids :
        /\ ret = [op |-> "resume", id |-> id, ok |-> TRUE]
        /\ rec[id].retry_count = 1
        /\ rec[id].status = "downloading"
        /\ CopiesIn(BeginWorker(id), workers) = 1
        /\ CopiesIn([id |-> id, pc |-> "attempt", idx |-> 2], workers) = 1

\* C11: a worker that has attempted every compatible engine without success
\* and finds the record still downloading sets the status to error and the
\* error message to the error of the last engine attempted; the error
\* message changes only in a step that moves the status to error.
C11_ExhaustedSetsError ==
    [][ \A id \in Ids :
            /\ \A w \in Live :
                   (/\ w.id = id /\ w.pc = "after"
                    /\ w.idx > Len(EnginesOf(id))
                    /\ rec[id].status = "downloading"
                    /\ CopiesIn(w, workers') < CopiesIn(w, workers)) =>
                       /\ rec'[id].status = "error"
                       /\ rec'[id].error_message = EnginesOf(id)[Len(EnginesOf(id))]
            /\ rec'[id].error_message # rec[id].error_message =>
                   /\ rec'[id].status = "error"
                   /\ rec[id].status # "error" ]_vars

\* C11 witness: a finished download on a host with two engines, both failed
\* once; the record is in error with the second engine's error.
C11_Witness ==
    \E id \in Ids :
        /\ Finished(id)
        /\ Len(EnginesOf(id)) = 2
        /\ StatRows(id, EnginesOf(id)[1], FALSE) = 1
        /\ StatRows(id, EnginesOf(id)[2], FALSE) = 1
        /\ rec[id].status = "error"
        /\ rec[id].error_message = EnginesOf(id)[2]

NoEngineMessage == "No compatible download engines available"

\* C12: with an empty compatible-engine list the worker sets the record to
\* error with the no-compatible-engine message when it leaves its first
\* step; no worker of the download enters the engine loop, no stats row is
\* written, and the status becomes downloading by no worker step (only by
\* an accepted resume_download).
C12_NoEngineError ==
    [][ \A id \in Ids :
            (Created(id)' /\ EnginesOf(id)' = << >>) =>
                /\ \A e \in EngineNames : Tried(id, e)' = 0
                /\ \A w \in BagToSet(workers') : w.id = id => w.pc \in {"begin", "finally"}
                /\ (rec'[id].status = "downloading" /\ rec[id].status # "downloading") =>
                       ret' = [op |-> "resume", id |-> id, ok |-> TRUE]
                /\ (/\ CopiesIn(BeginWorker(id), workers') < CopiesIn(BeginWorker(id), workers)
                    /\ id \in downloads) =>
                       /\ rec'[id].status = "error"
                       /\ rec'[id].error_message = NoEngineMessage
                       /\ rec'[id].started_at = 0 ]_vars

\* C12 witness: a finished download on a host without engines: error, the
\* message, never started, no stats.
C12_Witness ==
    \E id \in Ids :
        /\ Finished(id)
        /\ EnginesOf(id) = << >>
        /\ rec[id].status = "error"
        /\ rec[id].error_message = NoEngineMessage
        /\ rec[id].started_at = 0
        /\ engine_stats = EmptyBag

\* The record is in error because a worker exhausted the engine list.
Exhausted(id) ==
    /\ EnginesOf(id) # << >>
    /\ rec[id].status = "error"
    /\ rec[id].error_message = EnginesOf(id)[Len(EnginesOf(id))]

\* C13: while a record is in error after all engines were exhausted, no step
\* sets its status to downloading and no adapter call is started for it
\* (resume_download applies to paused records only).
C13_ErrorNotRetried ==
    [][ \A id \in Ids :
            Exhausted(id) =>
                /\ rec'[id].status # "downloading"
                /\ ThreadsAt(id, "attempt")' <= ThreadsAt(id, "attempt") ]_vars

\* The status changes the state machine allows.
AllowedStatusChange(a, b) ==
    \/ a = "initializing" /\ b = "downloading"
    \/ a = "downloading"  /\ b \in {"completed", "error", "paused", "cancelled"}
    \/ a = "paused"       /\ b \in {"downloading", "cancelled"}
    \/ a = "error"        /\ b = "cancelled"

\* C14: every change of the status of an existing record is one of the
\* allowed changes; in particular completed and cancelled are never left.
C14_StatusMachine ==
    [][ \A id \in Ids :
            (Created(id) /\ rec'[id].status # rec[id].status) =>
                AllowedStatusChange(rec[id].status, rec'[id].status) ]_vars

\* C15: the step of a download worker that marks a record completed (with
\* the bot initialised) hands the file to the upload queue: after the step
\* the record's filepath is in the pending queue or in the in-flight set,
\* with no further request made.
C15_CompletedIsQueued ==
    [][ \A id \in Ids :
            (bot /\ rec[id].status # "completed" /\ rec'[id].status = "completed") =>
                rec'[id].filepath \in (QueuedPaths' \cup processing_files') ]_vars

\* Higher priority first; among equal priorities the earlier insertion first.
QueueOrdered(q) ==
    \A i, j \in 1..Len(q) :
        i < j => \/ q[i].priority > q[j].priority
                 \/ /\ q[i].priority = q[j].priority
                    /\ q[i].created_at < q[j].created_at

\* C16: after every queue_upload call and every worker step the pending
\* queue is ordered by non-increasing priority with equal priorities in
\* insertion order; the worker takes the head of the queue: every step
\* other than clear_queue that shortens the queue removes its first item,
\* and the item the worker starts to publish is that first item.
C16_QueueOrder ==
    [][ /\ QueueOrdered(upload_queue')
        /\ (Len(upload_queue') < Len(upload_queue) /\ ret'.op # "clear_queue") =>
               upload_queue' = Tail(upload_queue)
        /\ (uw.pc = "idle" /\ uw'.pc = "publish") =>
               /\ upload_queue # << >>
               /\ uw'.filepath = Head(upload_queue).filepath
               /\ upload_queue' = Tail(upload_queue) ]_vars

\* C16 witness: two items were queued and none dequeued before; the worker is
\* publishing the one inserted second while the one inserted first is still
\* pending (the second had the higher priority).
C16_Witness ==
    /\ nseq = 2
    /\ uw.pc = "publish"
    /\ Len(upload_queue) = 1
    /\ upload_queue[1].created_at = 1
    /\ upload_queue[1].priority = 1
    /\ uw.filepath # upload_queue[1].filepath

\* The path is one that queue_upload turns away whatever the bot's state:
\* no such file, already pending, in flight or quarantined.
Ineligible(filepath) ==
    \/ filepath \notin fs
    \/ filepath \in QueuedPaths
    \/ filepath \in processing_files
    \/ filepath \in failed_files

\* The step adds exactly one item, for filepath, to the pending queue and
\* leaves the other items, the in-flight set and the quarantine set alone.
AddsOneItem(filepath) ==
    /\ Len(upload_queue') = Len(upload_queue) + 1
    /\ \E i \in 1..Len(upload_queue') :
           /\ upload_queue'[i].filepath = filepath
           /\ upload_queue = SubSeq(upload_queue', 1, i - 1)
                                \o SubSeq(upload_queue', i + 1, Len(upload_queue'))
    /\ UNCHANGED <<processing_files, failed_files>>

\* C17 as stated: a queue_upload call leaves the pending queue, the
\* in-flight set and the quarantine set unchanged when the file does not
\* exist, is pending, in flight or quarantined, and otherwise adds exactly
\* one item for the path.
C17_QueueUploadAsStated ==
    [][ \A f \in Files :
            (ret'.op = "queue_upload" /\ ret'.id = f) =>
                IF Ineligible(UploadPath(f))
                THEN UNCHANGED <<upload_queue, processing_files, failed_files>>
                ELSE AddsOneItem(UploadPath(f)) ]_vars

\* C17 amended: with the bot initialised, a queue_upload call leaves the
\* pending queue, the in-flight set and the quarantine set unchanged when the
\* file does not exist, is pending, in flight or quarantined, and otherwise
\* adds exactly one item for the path; with no bot initialised every call
\* leaves the three unchanged.
C17_QueueUpload ==
    [][ \A f \in Files :
            (ret'.op = "queue_upload" /\ ret'.id = f) =>
                IF ~bot \/ Ineligible(UploadPath(f))
                THEN /\ UNCHANGED <<upload_queue, processing_files, failed_files>>
                     /\ ~ret'.ok
                ELSE /\ AddsOneItem(UploadPath(f))
                     /\ ret'.ok ]_vars

\* C17 witness: with the bot initialised, a call for a file that exists and
\* is quarantined was turned away while another item is pending.
C17_Witness ==
    /\ bot
    /\ ret.op = "queue_upload" /\ ~ret.ok
    /\ UploadPath(ret.id) \in fs
    /\ UploadPath(ret.id) \in failed_files
    /\ UploadPath(ret.id) \notin QueuedPaths
    /\ upload_queue # << >>

\* The strategy with the smallest max_size among those that fit the size.
SmallestFitting(size) ==
    CHOOSE i \in 1..Len(upload_engines) :
        /\ size <= upload_engines[i].max_size
        /\ \A j \in 1..Len(upload_engines) :
               size <= upload_engines[j].max_size =>
                   upload_engines[i].max_size <= upload_engines[j].max_size

\* C18: the upload strategy chosen for an item is the one with the smallest
\* max_size among the strategies whose max_size is at least the file's size:
\* regular_small up to 20 MB, regular_large up to 50 MB, premium_large up to
\* 2 GB.
C18_SmallestBucket ==
    (uw.pc = "publish" /\ uw.size <= upload_engines[1].max_size) =>
        /\ uw.engine = upload_engines[SmallestFitting(uw.size)].name
        /\ uw.size <= 20 => uw.engine = "regular_small"
        /\ (20 < uw.size /\ uw.size <= 50) => uw.engine = "regular_large"
        /\ (50 < uw.size /\ uw.size <= 2048) => uw.engine = "premium_large"

\* C19: when a publish call of the upload worker was answered with
\* RetryAfter(n) and attempts remain, the worker has slept at least n seconds
\* when it makes the next publish attempt on the item.
C19_RateLimitWait ==
    (/\ uw.pc = "publish"
     /\ uw.hist # << >>
     /\ uw.hist[Len(uw.hist)] = "rate_limited") => uw.slept >= RetryAfterSecs

\* The worker ends an item on the third of three attempts that all failed
\* with a network error.
ThirdNetworkError ==
    /\ uw.pc = "publish"
    /\ uw.attempt = MaxRetries
    /\ uw.hist = <<"network_error", "network_error">>
    /\ uw'.pc = "idle"
    /\ uw'.last = "network_error"

\* No fourth attempt; the third network error quarantines the path and
\* counts as one more consecutive failure; a queue_upload call for a
\* quarantined path is turned away; the worker starts no item whose path is
\* quarantined.
QuarantineKept ==
    /\ uw'.attempt <= MaxRetries
    /\ ThirdNetworkError =>
           /\ uw.filepath \in failed_files'
           /\ uw.filepath \notin processing_files'
           /\ (consecutive_failures + 1 < MaxConsecutiveFailures) =>
                  consecutive_failures' = consecutive_failures + 1
    /\ (ret'.op = "queue_upload" /\ UploadPath(ret'.id) \in failed_files) =>
           /\ ~ret'.ok
           /\ UNCHANGED <<upload_queue, processing_files, failed_files>>
    /\ (uw.pc = "idle" /\ uw'.pc = "publish") => uw'.filepath \notin failed_files

\* C20 as stated: an item whose publish failed with a network error on each
\* of 3 attempts is not attempted a 4th time, its path is quarantined and the
\* consecutive-failure counter incremented; while quarantined, queue_upload
\* for the path is rejected and the path is not processed; and a path leaves
\* the quarantine set only by a retry_failed call.
C20_QuarantineAsStated ==
    [][ /\ QuarantineKept
        /\ (failed_files \ failed_files' # {}) => ret'.op = "retry_failed" ]_vars

\* C20 amended: as above, but a path leaves the quarantine set only by a
\* retry_failed call or a clear_queue call.
C20_Quarantine ==
    [][ /\ QuarantineKept
        /\ (failed_files \ failed_files' # {}) =>
               ret'.op \in {"retry_failed", "clear_queue"} ]_vars

\* C20 witness: the previous item ended on a network error after the last
\* attempt, its file is still on disk and its path quarantined, and a
\* queue_upload call for it has just been turned away.
C20_Witness ==
    /\ uw.pc = "idle" /\ uw.last = "network_error"
    /\ consecutive_failures >= 1
    /\ ret.op = "queue_upload" /\ ~ret.ok
    /\ UploadPath(ret.id) \in fs
    /\ failed_files = {UploadPath(ret.id)}
    /\ upload_queue = << >>
    /\ nseq = 1

\* C21: when a publish call is rejected as unparsable (BadRequest, can't
\* parse entities) the worker sends exactly one further publish call for the
\* item and then ends the item: the attempt counts 2 calls at the endpoint,
\* and no retry attempt follows a parse error.
C21_OneFallback ==
    [][ /\ (uw.pc = "publish" /\ uw'.pc # "publish" /\ uw'.calls >= 2) =>
               uw'.calls = 2
        /\ \A i \in 1..Len(uw'.hist) : uw'.hist[i] # "parse_error" ]_vars

C23_MissingFileDropped ==
    [][ (/\ ret'.op = "none"
         /\ Len(upload_queue') < Len(upload_queue)
         /\ Head(upload_queue).filepath \notin fs) =>
            /\ uw'.pc = "idle"
            /\ failed_files' = failed_files
            /\ consecutive_failures' = consecutive_failures ]_vars

\* C24: 10 uploads never fail in a row, with no confirmed publish in
\* between, without the worker making its 60 s cooldown pause before it
\* dequeues the next item; and the worker processes no item while its
\* counter is at or above the threshold.
C24_Cooldown ==
    /\ failed_run < MaxConsecutiveFailures
    /\ consecutive_failures < MaxConsecutiveFailures

\* retry_failed empties the quarantine set, returns its size and leaves the
\* pending queue alone; neither call touches the in-flight set, the worker
\* or the files.
AdminFrame ==
    /\ ret'.op = "retry_failed" =>
           /\ failed_files' = {}
           /\ ret'.id = Cardinality(failed_files)
           /\ upload_queue' = upload_queue
    /\ ret'.op \in {"retry_failed", "clear_queue"} =>
           UNCHANGED <<processing_files, uw, consecutive_failures, fs, published>>

\* C25 as stated: clear_queue empties the pending queue and leaves the
\* quarantine set unchanged; retry_failed empties the quarantine set and
\* leaves the pending queue unchanged; the quarantine set loses elements only
\* by a retry_failed call.
C25_AdminAsStated ==
    [][ /\ AdminFrame
        /\ ret'.op = "clear_queue" =>
               /\ upload_queue' = << >>
               /\ failed_files' = failed_files
        /\ (\E p \in failed_files : p \notin failed_files') =>
               ret'.op = "retry_failed" ]_vars

\* C25 amended: clear_queue empties the pending queue and the quarantine
\* set (and returns the number of pending items); retry_failed empties the
\* quarantine set and leaves the pending queue unchanged; the quarantine set
\* loses elements only by a retry_failed or a clear_queue call.
C25_Admin ==
    [][ /\ AdminFrame
        /\ ret'.op = "clear_queue" =>
               /\ upload_queue' = << >>
               /\ failed_files' = {}
               /\ ret'.id = Len(upload_queue)
        /\ (\E p \in failed_files : p \notin failed_files') =>
               ret'.op \in {"retry_failed", "clear_queue"} ]_vars

\* C25 witness: one item failed and was quarantined, a second one was
\* pending; clear_queue has returned 1 and both the queue and the quarantine
\* set are empty.
C25_Witness ==
    /\ ret.op = "clear_queue" /\ ret.id = 1
    /\ nseq = 2
    /\ uw.pc = "idle" /\ uw.last = "network_error"
    /\ consecutive_failures = 1
    /\ upload_queue = << >> /\ failed_files = {}

\* C26: at most one upload worker thread is alive, and so draining the
\* queue, at any time.
C26_SingleWorker == worker_threads <= 1

\* ------------------------------------------------------- progress reporting
\* What an engine reports through progress_callback(progress, speed), and the
\* sizes a successful engine returns in result['size'].
Percents == {0, 50, 100, 150}
Speeds == {0, 1, 2}
Sizes == {100, 200}

\* _download_worker at the top of an engine iteration: a cancelled record
\* ends the loop and the worker; otherwise status 'downloading' and
\* engine.download(url, filepath, progress_callback) runs.
MeterStart ==
    /\ meter.pending > 0
    /\ IF meter.status = "cancelled"
       THEN meter' = [meter EXCEPT !.pending = @ - 1]
       ELSE meter' = [meter EXCEPT !.status = "downloading",
                                   !.pending = @ - 1, !.running = @ + 1]

\* size - size * progress / 100, as progress_callback computes it.
Remaining(size, progress) == size - ((size * progress) \div 100)

\* progress_callback without the test of the status.
progress_callback_AnyStatus(progress, speed) ==
    /\ meter.running > 0
    /\ meter' = [meter EXCEPT
             !.progress = IF progress < 100 THEN progress ELSE 100,
             !.speed = speed,
             !.eta = IF speed > 0 /\ meter.size # NoSize
                     THEN IF Remaining(meter.size, progress) > 0
                          THEN Remaining(meter.size, progress) \div speed
                          ELSE 0
                     ELSE @]

\* progress_callback(progress, speed): nothing unless the record is
\* 'downloading'; progress capped at 100; eta written only when speed > 0 and
\* the dict has a 'size' key, and left as it was otherwise.
progress_callback(progress, speed) ==
    /\ meter.running > 0
    /\ IF meter.status = "downloading"
       THEN meter' = [meter EXCEPT
                !.progress = IF progress < 100 THEN progress ELSE 100,
                !.speed = speed,
                !.eta = IF speed > 0 /\ meter.size # NoSize
                        THEN IF Remaining(meter.size, progress) > 0
                             THEN Remaining(meter.size, progress) \div speed
                             ELSE 0
                        ELSE @]
       ELSE UNCHANGED meter

\* The engine returns success: status 'completed', progress 100, 'size' set;
\* the worker leaves the loop.
MeterSuccess(size) ==
    /\ meter.running > 0
    /\ meter' = [meter EXCEPT !.status = "completed", !.progress = 100,
                              !.size = size, !.running = @ - 1]

\* The engine returns failure or raises.  With another engine to try the
\* worker goes to the next iteration; after the last one the record is
\* 'error' if it is still 'downloading'.
MeterFail(more) ==
    /\ meter.running > 0
    /\ IF more
       THEN meter' = [meter EXCEPT !.running = @ - 1, !.pending = @ + 1]
       ELSE meter' = [meter EXCEPT
                !.running = @ - 1,
                !.status = IF @ = "downloading" THEN "error" ELSE @]

\* pause_download: status 'paused' whatever it was; a running engine goes on.
MeterPause ==
    /\ meter.status \notin {"paused", "cancelled"}
    /\ meter' = [meter EXCEPT !.status = "paused"]

\* resume_download: a paused record is 'downloading' again and a new worker
\* thread is started for it.
MeterResume ==
    /\ meter.status = "paused"
    /\ meter.pending + meter.running < MaxThreads
    /\ meter' = [meter EXCEPT !.status = "downloading", !.pending = @ + 1]

\* cancel_download: status 'cancelled' and the record leaves the table; a
\* worker inside an engine keeps its reference to the dict.
MeterCancel ==
    /\ meter.status # "cancelled"
    /\ meter' = [meter EXCEPT !.status = "cancelled"]

NextProgress ==
    /\ \/ MeterStart
       \/ \E progress \in Percents, speed \in Speeds : progress_callback(progress, speed)
       \/ \E size \in Sizes : MeterSuccess(size)
       \/ \E more \in BOOLEAN : MeterFail(more)
       \/ MeterPause
       \/ MeterResume
       \/ MeterCancel
    /\ UNCHANGED <<dlVars, upVars, fs, ret, lookup, raised, iter, inserting>>

SpecProgress == Init /\ [][NextProgress]_vars

\* The value of an eta that is omitted from the record.
NoEta == 0 - 1

\* C27: every progress_callback(progress, speed) on a downloading record
\* leaves eta = (size - downloaded) / speed, never negative, when speed > 0
\* and the size is known, and leaves no eta in the record (neither the old
\* value nor the default 0) when speed = 0.
C27_Eta ==
    [][\A progress \in Percents, speed \in Speeds :
          (progress_callback(progress, speed) /\ meter.status = "downloading") =>
              /\ speed > 0 => meter'.eta >= 0
              /\ (speed > 0 /\ meter.size # NoSize) =>
                     meter'.eta = (IF Remaining(meter.size, progress) > 0
                                   THEN Remaining(meter.size, progress) \div speed
                                   ELSE 0)
              /\ speed = 0 => meter'.eta = NoEta]_vars

\* ------------------------------------------- publishing finished downloads
\* The dashboard poll queues a download that is 'completed' in memory, has no
\* telegram_file_id there and whose file exists; the upload worker publishes
\* it, _update_database reads the stored record, adds the publish reference
\* and saves it, and the worker deletes the file.
PublishDownload(id) ==
    /\ bot
    /\ id \in downloads
    /\ rec[id].status = "completed"
    /\ ~rec[id].telegram_file_id
    /\ rec[id].filepath # NoPath
    /\ rec[id].filepath \in fs
    /\ store' = IF id \in stored
                THEN [store EXCEPT ![id].telegram_file_id = TRUE]
                ELSE store
    /\ fs' = fs \ {rec[id].filepath}
    /\ ret' = [op |-> "publish", id |-> id, ok |-> TRUE]
    /\ UNCHANGED <<available_engines, max_workers, rec, downloads, nextId,
                   workers, stored, engine_stats>>

NextPublish ==
    /\ Handlers \/ WorkerSteps \/ (\E id \in Ids : PublishDownload(id))
    /\ ctl' = Observe
    /\ UNCHANGED <<upVars, meter, lookup, raised, iter, inserting>>

SpecPublish == Init /\ [][NextPublish]_vars

C29_UniquePaths ==
    \A i, j \in downloads :
        (i # j /\ rec[i].filepath # NoPath) => rec[i].filepath # rec[j].filepath

\* C30: started_at and finished_at of a record are each written at most
\* once (the fields count their writes).
C30_TimestampsOnce ==
    \A id \in Ids : rec[id].started_at <= 1 /\ rec[id].finished_at <= 1

VolatileChanged ==
    \/ meter'.progress # meter.progress
    \/ meter'.speed # meter.speed
    \/ meter'.eta # meter.eta

InitEngines ==
    /\ bot = TRUE
    /\ InitBot
    /\ \E enabled \in SUBSET EngineNames, installed \in SUBSET EngineNames :
          /\ lookup = [NoLookup EXCEPT !.enabled = enabled, !.startup = installed,
                                       !.present = installed]
          /\ available_engines = enabled \cap installed
    /\ max_workers = 1
    /\ rec = [i \in Ids |-> NoRec]
    /\ downloads = {}
    /\ nextId = 1
    /\ workers = EmptyBag
    /\ store = [i \in Ids |-> NoRec]
    /\ stored = {}
    /\ engine_stats = EmptyBag
    /\ fs = {}
    /\ ret = NoRet
    /\ ctl = [i \in Ids |-> "none"]
    /\ meter = NoMeter
    /\ raised = {}
    /\ iter = NoIter
    /\ inserting = [c \in Callers |-> NoItem]

\* A tool is installed or removed while the program runs: what
\* engine.is_available() would answer changes.
ToolChange(e) ==
    /\ lookup' = [lookup EXCEPT !.present =
                      IF e \in @ THEN @ \ {e} ELSE @ \cup {e}]
    /\ UNCHANGED available_engines

\* A caller asks for the engines of a URL.
Lookup(u) ==
    /\ lookup' = [lookup EXCEPT
                      !.url = u,
                      !.result = get_all_compatible_engines(available_engines, u)]
    /\ UNCHANGED available_engines

NextEngines ==
    /\ \/ \E e \in EngineNames : ToolChange(e)
       \/ \E u \in Urls : Lookup(u)
    /\ UNCHANGED <<max_workers, rec, downloads, nextId, workers, store, stored,
                   engine_stats, ctl, upVars, fs, ret, meter, raised, iter, inserting>>

SpecEngines == InitEngines /\ [][NextEngines]_vars

\* The engines a lookup of lookup.url has to return.
Compatible ==
    {e \in lookup.enabled \cap lookup.startup : can_handle_url(e, lookup.url)}

\* C32: the list a lookup returned holds exactly the engines that were
\* enabled and installed at startup and can handle the URL, each once, in
\* ascending priority, whatever is installed now; and the snapshot of
\* available engines is still the one taken at startup.
C32_CompatibleEngines ==
    /\ available_engines = lookup.enabled \cap lookup.startup
    /\ lookup.url # "" =>
          /\ {lookup.result[i] : i \in 1..Len(lookup.result)} = Compatible
          /\ Len(lookup.result) = Cardinality(Compatible)
          /\ \A i, j \in 1..Len(lookup.result) :
                 i < j => EnginePriority(lookup.result[i]) < EnginePriority(lookup.result[j])

\* A lookup of a URL no platform matches, on a host with yt-dlp, that returns
\* two engines or more, the first of which has been removed since startup.
C32_Witness ==
    /\ lookup.url = "direct_url"
    /\ "yt-dlp" \in available_engines
    /\ Len(lookup.result) >= 2
    /\ lookup.result[1] \notin lookup.present

\* ------------------------------------------------ exceptions in the worker
\* An exception is raised inside the engine iteration while the attempt is
\* under way (by engine.download, or by db.save_engine_stats in the failure
\* branch before the partial file is removed): "except Exception as e:
\* last_error = str(e); continue".
EngineRaise(w) ==
    /\ w.pc = "attempt"
    /\ workers' = Move(w, "check", w.idx + 1)
    /\ ret' = NoRet
    /\ UNCHANGED <<available_engines, max_workers, rec, downloads, nextId,
                   store, stored, engine_stats, fs>>

\* db.save_download raises at the top of an iteration: status, engine and
\* started_at are set in memory, nothing is stored and no path prepared; the
\* inner except goes on to the next engine.
SaveRaise(w) ==
    /\ w.pc = "set"
    /\ rec' = [rec EXCEPT ![w.id].status = "downloading",
                          ![w.id].engine = EnginesOf(w.id)[w.idx],
                          ![w.id].started_at = @ + 1]
    /\ downloads' = downloads \cup {w.id}
    /\ workers' = Move(w, "check", w.idx + 1)
    /\ ret' = NoRet
    /\ UNCHANGED <<available_engines, max_workers, nextId, store, stored,
                   engine_stats, fs>>

\* The engine returned success and db.save_engine_stats raises: the record
\* is 'completed' already, no row is written and the break is not reached;
\* the inner except goes on to the next engine.
StatsRaise(w) ==
    /\ w.pc = "attempt"
    /\ rec' = [rec EXCEPT ![w.id].status = "completed",
                          ![w.id].progress = 100,
                          ![w.id].finished_at = @ + 1]
    /\ fs' = fs \cup {rec[w.id].filepath}
    /\ workers' = Move(w, "check", w.idx + 1)
    /\ ret' = NoRet
    /\ UNCHANGED <<available_engines, max_workers, downloads, nextId,
                   store, stored, engine_stats>>

\* engine_manager.get_all_compatible_engines raises: the outer except sets
\* status 'error' and the message, then the finally block runs.
LookupRaise(w) ==
    /\ w.pc = "begin"
    /\ w.id \in downloads
    /\ rec' = [rec EXCEPT ![w.id].status = "error",
                          ![w.id].error_message = "lookup failed"]
    /\ workers' = Move(w, "finally", 0)
    /\ ret' = NoRet
    /\ UNCHANGED <<available_engines, max_workers, downloads, nextId,
                   store, stored, engine_stats, fs>>

FaultSteps ==
    \/ \E w \in Live : EngineRaise(w) /\ raised' = raised \cup {w.id}
    \/ \E w \in Live : SaveRaise(w) /\ raised' = raised \cup {w.id}
    \/ \E w \in Live : StatsRaise(w) /\ raised' = raised \cup {w.id}
    \/ \E w \in Live : LookupRaise(w) /\ raised' = raised \cup {w.id}

\* Runs with exceptions in the workers and no pause, resume or cancel call.
NextFaults ==
    /\ \/ ((\E u \in StartUrls : start_download(u)) \/ WorkerSteps) /\ UNCHANGED raised
       \/ FaultSteps
    /\ ctl' = Observe
    /\ UNCHANGED <<upVars, meter, lookup, iter, inserting>>

SpecFaults == Init /\ [][NextFaults]_vars

\* C33: the step in which an engine attempt of a worker ends without
\* success (the worker goes on to the next engine with the record as it was)
\* adds a failure row for that engine to the engine stats and leaves no file
\* at the record's file path.
C33_FailureCleanup ==
    [][\A w \in Live :
          (w.pc = "attempt" /\ workers' = Move(w, "check", w.idx + 1) /\ rec' = rec) =>
              /\ engine_stats' = engine_stats (+)
                     SetToBag({[engine |-> EnginesOf(w.id)[w.idx], url |-> rec[w.id].url,
                                success |-> FALSE, did |-> w.id]})
              /\ rec[w.id].filepath \notin fs']_vars

\* C34: a step in which an exception is raised in a worker changes no other
\* record; and when a worker ends after an exception was raised in it, the
\* record is 'error', has an error message and is stored as it is.
C34_ExceptionEndsInError ==
    [][ /\ \A id \in Ids :
               (id \in raised' /\ id \notin raised) =>
                   \A j \in Ids \ {id} : rec'[j] = rec[j] /\ store'[j] = store[j]
        /\ \A w \in Live :
               (/\ workers' = Exit(w)
                /\ w.id \in raised
                /\ w.id \in downloads) =>
                   /\ rec'[w.id].status = "error"
                   /\ rec'[w.id].error_message # ""
                   /\ w.id \in stored'
                   /\ store'[w.id] = rec'[w.id] ]_vars

\* ------------------------------------------- iterating the download table
\* The request handlers that walk downloader.downloads.items() themselves.
IterOps == {"pause_all", "listing"}

\* "for dl_id, dl_data in downloader.downloads.items():" is entered; the
\* handlers take no lock.  The iterator remembers the size of the dict.
IterBegin(op) ==
    /\ iter.op = "none"
    /\ iter' = [op |-> op, todo |-> downloads, len |-> Cardinality(downloads)]
    /\ ret' = NoRet
    /\ UNCHANGED <<available_engines, max_workers, rec, downloads, nextId,
                   workers, store, stored, engine_stats, fs>>

\* One turn of the loop.  The dict iterator raises RuntimeError when the
\* size of the dict has changed since the loop was entered (the handler's
\* except answers with an error); otherwise the next record is visited, and
\* pause_all calls pause_download for it when it is 'downloading'.
IterStep ==
    /\ iter.op # "none"
    /\ IF Cardinality(downloads) # iter.len
       THEN /\ iter' = NoIter
            /\ ret' = [op |-> iter.op, id |-> 0, ok |-> FALSE]
            /\ UNCHANGED <<available_engines, max_workers, rec, downloads, nextId,
                           workers, store, stored, engine_stats, fs>>
       ELSE IF iter.todo \cap downloads = {}
       THEN /\ iter' = NoIter
            /\ ret' = [op |-> iter.op, id |-> 0, ok |-> TRUE]
            /\ UNCHANGED <<available_engines, max_workers, rec, downloads, nextId,
                           workers, store, stored, engine_stats, fs>>
       ELSE \E id \in iter.todo \cap downloads :
               /\ iter' = [iter EXCEPT !.todo = @ \ {id}]
               /\ IF iter.op = "pause_all" /\ rec[id].status = "downloading"
                  THEN pause_download(id)
                  ELSE /\ ret' = NoRet
                       /\ UNCHANGED <<available_engines, max_workers, rec, downloads,
                                      nextId, workers, store, stored, engine_stats, fs>>

\* Starts, cancels and workers, beside the handlers that iterate the table.
NextTable ==
    /\ \/ /\ \/ \E u \in StartUrls : start_download(u)
             \/ \E id \in Ids : cancel_download(id)
             \/ WorkerSteps
          /\ UNCHANGED iter
       \/ \E op \in IterOps : IterBegin(op)
       \/ IterStep
    /\ ctl' = Observe
    /\ UNCHANGED <<upVars, meter, lookup, raised, inserting>>

SpecTable == Init /\ [][NextTable]_vars

\* C35: no record is inserted into or deleted from the download table while
\* a thread is iterating over it.
C35_TableLocked == [][downloads' # downloads => iter.op = "none"]_vars

\* The worker threads that are running for download id.
WorkersOf(id) == {w \in Live : w.id = id}

\* C36: a record of the table that is 'downloading' has a live worker
\* thread; and after the step in which the last worker of a record ends, the
\* record is not 'downloading'.
C36_NoLeakedSlot ==
    [][ /\ \A id \in downloads' :
               rec'[id].status = "downloading" =>
                   \E w \in BagToSet(workers') : w.id = id
        /\ \A w \in Live :
               (workers' = Exit(w) /\ WorkersOf(w.id) = {w} /\ CopiesIn(w, workers) = 1) =>
                   rec'[w.id].status # "downloading" ]_vars

\* The last worker of a record that was resumed has ended and the record is
\* completed.
C36_Witness ==
    \E id \in downloads :
        /\ rec[id].retry_count > 0
        /\ rec[id].status = "completed"
        /\ WorkersOf(id) = {}

\* -------------------------------- queue_upload and the dequeue, step by step
\* queue_upload up to the built upload_item: the bot test, the file test, the
\* three duplicate tests.  No lock is taken, so the insert is a later step.
QueueCheck(c, f, priority) ==
    /\ inserting[c] = NoItem
    /\ LET filepath == UploadPath(f)
       IN  IF \/ ~bot
              \/ filepath \notin fs
              \/ filepath \in processing_files
              \/ filepath \in failed_files
              \/ filepath \in QueuedPaths
           THEN /\ ret' = [op |-> "queue_upload", id |-> f, ok |-> FALSE]
                /\ UNCHANGED <<inserting, nseq>>
           ELSE /\ nseq < MaxUploads
                /\ inserting' = [inserting EXCEPT ![c] =
                       [filepath |-> filepath, priority |-> priority,
                        created_at |-> nseq + 1]]
                /\ nseq' = nseq + 1
                /\ ret' = NoRet
    /\ UNCHANGED <<upload_queue, processing_files, failed_files,
                   consecutive_failures, uw, published, fs>>

\* queue_upload from "Insert based on priority" on.
QueueInsert(c) ==
    /\ inserting[c] # NoItem
    /\ upload_queue' = InsertByPriority(upload_queue, inserting[c])
    /\ inserting' = [inserting EXCEPT ![c] = NoItem]
    /\ ret' = [op |-> "queue_upload", id |-> inserting[c].filepath[2], ok |-> TRUE]
    /\ UNCHANGED <<processing_files, failed_files, consecutive_failures, uw,
                   nseq, published, fs>>

\* item = self.upload_queue.pop(0)
UploadPop ==
    /\ bot /\ uw.pc = "idle"
    /\ upload_queue # << >>
    /\ upload_queue' = Tail(upload_queue)
    /\ uw' = [NoUpload EXCEPT !.pc = "popped", !.filepath = Head(upload_queue).filepath]
    /\ ret' = NoRet
    /\ UNCHANGED <<processing_files, failed_files, consecutive_failures,
                   nseq, published, fs, inserting>>

\* The dequeued item: skipped, dropped for its missing file, or marked as
\* processing with self.processing_files.add.
UploadMark ==
    /\ bot /\ uw.pc = "popped"
    /\ LET filepath == uw.filepath
           size == st_size(filepath)
       IN  IF filepath \in processing_files \/ filepath \in failed_files
           THEN /\ uw' = NoUpload
                /\ UNCHANGED <<processing_files, failed_files>>
           ELSE IF filepath \notin fs
           THEN /\ failed_files' = failed_files \cup {filepath}
                /\ uw' = NoUpload
                /\ UNCHANGED processing_files
           ELSE /\ processing_files' = processing_files \cup {filepath}
                /\ uw' = [pc |-> "publish", filepath |-> filepath, size |-> size,
                          attempt |-> 1, engine |-> _select_upload_engine(size).name,
                          hist |-> << >>, last |-> "none", calls |-> 0, slept |-> 0]
                /\ UNCHANGED failed_files
    /\ ret' = NoRet
    /\ UNCHANGED <<upload_queue, consecutive_failures, nseq, published, fs, inserting>>

NextRace ==
    /\ \/ \E c \in Callers, f \in Files, priority \in Priorities : QueueCheck(c, f, priority)
       \/ \E c \in Callers : QueueInsert(c)
       \/ UploadPop
       \/ UploadMark
       \/ /\ UploadIdle
          /\ ret' = NoRet
          /\ UNCHANGED <<upload_queue, processing_files, failed_files, nseq,
                         published, fs, inserting>>
       \/ /\ \E outcome \in Outcomes : UploadAttempt(outcome)
          /\ ret' = NoRet
          /\ UNCHANGED <<upload_queue, nseq, inserting>>
       \/ /\ UploadUnlink
          /\ ret' = NoRet
          /\ UNCHANGED <<upload_queue, nseq, inserting>>
       \/ FileSteps /\ UNCHANGED inserting
    /\ UNCHANGED <<bot, failed_run, wkVars, dlVars, meter, lookup, raised, iter>>

SpecRace == InitUpload /\ [][NextRace]_vars

\* C37: no file path is in two items of the pending queue, and none is in
\* the pending queue and in the processing set at once.
C37_NoDuplicateItem ==
    /\ \A i, j \in 1..Len(upload_queue) :
           i # j => upload_queue[i].filepath # upload_queue[j].filepath
    /\ QueuedPaths \cap processing_files = {}

\* ------------------------------------------- a file that cannot be deleted
\* filepath.unlink() raises after the publish was confirmed: the except
\* clause logs "Failed to delete file" and the worker goes on as after a
\* deleted file.
UploadUnlinkFails ==
    /\ bot /\ uw.pc = "unlink"
    /\ consecutive_failures' = 0
    /\ processing_files' = processing_files \ {uw.filepath}
    /\ uw' = [NoUpload EXCEPT !.last = uw.last, !.calls = uw.calls, !.slept = 2]
    /\ UNCHANGED <<failed_files, published, fs>>

\* The upload queue with files that are stored once: no file is created
\* again at a path that has been published.
NextRepublish ==
    /\ \/ UploadCalls
       \/ UploadWorkerSteps
       \/ /\ UploadUnlinkFails
          /\ ret' = NoRet
          /\ UNCHANGED <<upload_queue, nseq>>
       \/ /\ \E f \in Files : UploadPath(f) \notin published /\ save_file(f)
          /\ ret' = NoRet
          /\ UNCHANGED <<upload_queue, processing_files, failed_files,
                         consecutive_failures, uw, nseq, published>>
    /\ UNCHANGED <<bot, failed_run, wkVars, dlVars, meter, lookup, raised, iter,
                   inserting>>

SpecRepublish == InitUpload /\ [][NextRepublish]_vars

\* C38: no publish call is made for a path whose publish has been confirmed.
C38_PublishedOnce ==
    [][(uw.pc = "publish" /\ uw.filepath \in fs /\ uw' # uw) =>
           uw.filepath \notin published]_vars

\* --------------------------------------------------- the worker keeps going
\* A step of the upload worker thread.  While self.worker_running the loop
\* of _process_upload_queue goes round: every sleep ends and every publish
\* call returns or raises.
UploadWorkerAct ==
    /\ UploadWorkerSteps
    /\ UNCHANGED <<bot, failed_run, wkVars, dlVars, meter, lookup, raised, iter,
                   inserting>>

SpecDrain == InitUpload /\ [][NextUpload]_vars /\ WF_vars(UploadWorkerAct)

\* Nothing is pending and nothing is in flight.
Drained == upload_queue = << >> /\ processing_files = {}

\* C39: whenever an item is pending or in flight, the queue is later empty
\* with nothing in flight (the calls that enqueue are finitely many).
C39_QueueDrains == ~Drained ~> Drained

\* Both items have been handled, the first one failed and was quarantined,
\* the one behind it was published.
C39_Witness ==
    /\ Drained
    /\ nseq = MaxUploads
    /\ failed_files # {}
    /\ uw.pc = "idle" /\ uw.last = "ok"

\* ------------------------------------------------------- cleanup_completed
\* The records of the table with the given status.
WithStatus(s) == {id \in downloads : rec[id].status = s}

\* cleanup_completed that also takes the records that ended in error.
cleanup_completed_AnyFinished ==
    LET completed_ids == WithStatus("completed") \cup WithStatus("error") IN
    /\ downloads' = downloads \ completed_ids
    /\ store' = [i \in Ids |-> IF i \in completed_ids THEN NoRec ELSE store[i]]
    /\ stored' = stored \ completed_ids
    /\ ret' = [op |-> "cleanup", id |-> Cardinality(completed_ids), ok |-> TRUE]
    /\ UNCHANGED <<available_engines, max_workers, rec, nextId, workers,
                   engine_stats, fs>>

\* ProfessionalDownloader.cleanup_completed: under self.lock, the ids whose
\* dict says 'completed' are collected, each is deleted from self.downloads
\* and from the record store, and their number is returned.
cleanup_completed ==
    LET completed_ids == WithStatus("completed") IN
    /\ downloads' = downloads \ completed_ids
    /\ store' = [i \in Ids |-> IF i \in completed_ids THEN NoRec ELSE store[i]]
    /\ stored' = stored \ completed_ids
    /\ ret' = [op |-> "cleanup", id |-> Cardinality(completed_ids), ok |-> TRUE]
    /\ UNCHANGED <<available_engines, max_workers, rec, nextId, workers,
                   engine_stats, fs>>

NextCleanup ==
    /\ Handlers \/ WorkerSteps \/ cleanup_completed
    /\ ctl' = Observe
    /\ UNCHANGED <<upVars, meter, lookup, raised, iter, inserting>>

SpecCleanup == Init /\ [][NextCleanup]_vars

\* C40: a call of cleanup_completed takes out of the table and out of the
\* record store exactly the records that are 'completed' when it is made and
\* returns their number; every other record stays in the table and in the
\* store as it was, and no dict, no file and no upload item is touched.
C40_CleanupCompleted ==
    [][ret'.op = "cleanup" =>
        LET done == WithStatus("completed") IN
        /\ downloads' = downloads \ done
        /\ stored' = stored \ done
        /\ ret'.id = Cardinality(done)
        /\ \A i \in Ids \ done : store'[i] = store[i]
        /\ rec' = rec
        /\ fs' = fs
        /\ upload_queue' = upload_queue
        /\ processing_files' = processing_files ]_vars

\* A call has just removed a completed record and left a record that ended
\* in error in the table and in the store.
C40_Witness ==
    /\ ret.op = "cleanup" /\ ret.id = 1
    /\ \E i \in Ids : rec[i].status = "completed" /\ i \notin downloads /\ i \notin stored
    /\ \E i \in downloads : rec[i].status = "error" /\ i \in stored

====
